---- MODULE Spec2Model ----
(***************************************************************************)
(* The vehicle lifecycle handlers of src/src/routes/vehicles-route.ts:     *)
(* list, create (with VIN-reuse reactivation), get, update, soft-delete    *)
(* and restore, over the vehicles table and the ownershipTransfers table.  *)
(*                                                                         *)
(* A handler reads the store once and then issues its write statements.    *)
(* Its plan is the answer it is heading for and those statements, as       *)
(* data. Spec runs the requests one after the other: one action is one     *)
(* handler, from the session check to the answer. SpecRacing lets the      *)
(* requests of several callers interleave statement by statement, as the   *)
(* handlers, which open no transaction, allow.                             *)
(***************************************************************************)
EXTENDS Integers, Sequences, FiniteSets, TLC

\* ---------------------------------------------------------------- bounds
\* The clock stops the model: every request that writes takes one tick.
MaxTime == 4
\* The same for SpecRacing, where a tick is a request that begins.
MaxRacingTime == 4

\* ------------------------------------------------------------ value sets
\* SQL NULL / a missing JSON key, and a present value.
NULL == <<>>
Some(x) == <<x>>

\* c.get("user") when the session middleware resolved nobody.
NoUser == "nobody"
Users == {"u1", "u2", "adm"}
Callers == Users \cup {NoUser}
\* user.role of the auth collaborator: "user" or "admin".
Role(u) == IF u = "adm" THEN "admin" ELSE "user"

\* The VINs a request can carry. The VIN also stands for the descriptive
\* columns (make, model, year, ...): like them it is set by create and
\* edited by update.
VINs == {"vinA", "vinB"}
\* The UUIDs a request can name: as many as there can be rows (a VIN is on
\* one row only). While the table is not full, some name no row.
UUIDs == 1..Cardinality(VINs)
\* The requests that can be under way at once in SpecRacing.
Procs == {"p1", "p2"}

VARIABLES
    vehicles,   \* vehiclesTable: the rows in insertion order
    transfers,  \* ownershipTransfersTable: the rows in insertion order
    clock,      \* the value new Date() last returned
    inflight    \* per request under way, the statements it has yet to issue

vars == <<vehicles, transfers, clock, inflight>>

Range(s) == {s[i] : i \in 1..Len(s)}

\* ------------------------------------------------------------- the store
\* The table without the unique index on vin.
vinNotChecked(rows) == TRUE

\* vehiclesTable declares vin unique over all rows, deleted ones included:
\* a statement that would leave two rows with one VIN is rejected.
vinUnique(rows) ==
    \A i, j \in 1..Len(rows) : rows[i].vin = rows[j].vin => i = j

\* uuid("uuid").defaultRandom(): a value no row carries. Rows are never
\* removed, so the row's number names one.
defaultRandom(rows) == Len(rows) + 1

\* .where(eq(column, value)), and a statement with no where().
Where(col, val) == [col |-> col, val |-> val]
NoWhere == [col |-> "all", val |-> NULL]

matches(v, where) ==
    \/ where.col = "all"
    \/ where.col = "uuid" /\ v.uuid = where.val
    \/ where.col = "id" /\ v.id = where.val

\* .set({...}): the columns an update writes; a column not named is NULL here.
NoSet == [ownerId |-> NULL, vin |-> NULL, deletedAt |-> NULL, updatedAt |-> NULL]

applySet(v, set) ==
    [v EXCEPT
        !.ownerId   = IF set.ownerId = NULL THEN @ ELSE set.ownerId[1],
        !.vin       = IF set.vin = NULL THEN @ ELSE set.vin[1],
        !.deletedAt = IF set.deletedAt = NULL THEN @ ELSE set.deletedAt[1],
        !.updatedAt = IF set.updatedAt = NULL THEN @ ELSE set.updatedAt[1]]

\* The write statements the handlers issue.
UpdateVehicles(where, set) ==
    [op |-> "update", where |-> where, set |-> set, row |-> NULL]
InsertVehicle(row) ==
    [op |-> "insertVehicle", where |-> NoWhere, set |-> NoSet, row |-> row]
InsertTransfer(row) ==
    [op |-> "insertTransfer", where |-> NoWhere, set |-> NoSet, row |-> row]

\* The row an insert stores: id is the identity column, uuid and the
\* timestamps are the column defaults.
inserted(rows, row) ==
    [id |-> Len(rows) + 1, uuid |-> defaultRandom(rows), vin |-> row.vin,
     ownerId |-> row.ownerId, updatedAt |-> row.createdAt, deletedAt |-> NULL]

\* An insert that replaces what the table holds.
insertValuesOverwrites(xfers, row) == <<row>>

\* An insert that skips a transfer of a vehicle from an owner the table
\* already holds one for.
insertValuesOnce(xfers, row) ==
    IF \E k \in 1..Len(xfers) :
          /\ xfers[k].vehicleId = row.vehicleId /\ xfers[k].vin = row.vin
          /\ xfers[k].fromUserId = row.fromUserId
    THEN xfers ELSE Append(xfers, row)

\* db.insert(ownershipTransfersTable).values(row): the table with the row
\* added; the handlers issue no other statement on this table.
insertValues(xfers, row) == Append(xfers, row)

\* A statement that removes the rows it matches.
deleteFrom(rows, where, set) ==
    LET kept(v) == ~matches(v, where) IN SelectSeq(rows, kept)

\* db.update(vehiclesTable).set(set).where(where): the rows that match are
\* written, every row stays.
updateSet(rows, where, set) ==
    [i \in 1..Len(rows) |->
        IF matches(rows[i], where) THEN applySet(rows[i], set) ELSE rows[i]]

\* One statement on the store: whether the store took it, the store after
\* it, and the rows .returning() hands back.
exec(stmt, rows, xfers) ==
    IF stmt.op = "insertTransfer"
    THEN [ok |-> TRUE, vehicles |-> rows, transfers |-> insertValues(xfers, stmt.row),
          returning |-> <<>>]
    ELSE LET after == IF stmt.op = "insertVehicle"
                      THEN Append(rows, inserted(rows, stmt.row))
                      ELSE updateSet(rows, stmt.where, stmt.set)
             touched(v) == stmt.op = "insertVehicle" \/ matches(v, stmt.where)
         IN  IF vinUnique(after)
             THEN [ok |-> TRUE, vehicles |-> after, transfers |-> xfers,
                   returning |-> IF stmt.op = "insertVehicle"
                                 THEN <<after[Len(after)]>>
                                 ELSE SelectSeq(after, touched)]
             ELSE \* the statement throws; nothing catches it
                  [ok |-> FALSE, vehicles |-> rows, transfers |-> xfers,
                   returning |-> <<>>]

\* The statements of one request, one after the other; the first that
\* throws ends the request.
RECURSIVE execAll(_, _, _)
execAll(stmts, rows, xfers) ==
    LET first == exec(Head(stmts), rows, xfers)
    IN  IF ~first.ok \/ Len(stmts) = 1 THEN first
        ELSE execAll(Tail(stmts), first.vehicles, first.transfers)

\* What a handler is heading for once it has read the store: the status and
\* the tag (created/restored) of its answer, the rows in the answer when it
\* writes nothing, and the statements it goes on to issue.
Plan(status, tag, body, writes) ==
    [status |-> status, tag |-> tag, body |-> body, writes |-> writes]

\* A plan that writes nothing.
Refuse(status) == Plan(status, "none", {}, <<>>)

\* What a handler answers (status, tag, the rows in the JSON) and the store
\* it leaves, when nothing else touches the store while it runs.
Answer(plan) ==
    IF plan.writes = <<>>
    THEN [status |-> plan.status, tag |-> plan.tag, body |-> plan.body,
          vehicles |-> vehicles, transfers |-> transfers, clock |-> clock]
    ELSE LET done == execAll(plan.writes, vehicles, transfers)
             \* res[0] is undefined when the statement wrote no row, and the
             \* handler then throws on reading its id
             answered == done.ok /\ (plan.tag = "deleted" \/ done.returning # <<>>)
         IN  [status |-> IF answered THEN plan.status ELSE 500,
              tag |-> IF answered THEN plan.tag ELSE "none",
              body |-> IF answered /\ plan.tag # "deleted"
                       THEN {Head(done.returning)} ELSE {},
              vehicles |-> done.vehicles, transfers |-> done.transfers,
              clock |-> clock + 1]

\* A handler that writes needs a tick of the clock.
InTime(answer) == answer.clock # clock => clock < MaxTime

\* A handler that goes on without a session.
sessionNotChecked(user) == FALSE

\* if (!user): every handler starts with it and answers 401.
noUser(user) == user = NoUser

Idle == [p \in Procs |-> <<>>]

Init ==
    /\ vehicles = <<>>
    /\ transfers = <<>>
    /\ clock = 0
    /\ inflight = Idle

\* ------------------------------------------------------------ GET /
\* The list query without isNull(deletedAt).
listWhereNoDeletedFilter(user, v) == Role(user) = "user" => v.ownerId = user

\* The where clause of the list query.
listWhere(user, v) ==
    /\ (Role(user) = "user" => v.ownerId = user)
    /\ v.deletedAt = NULL

listPlan(user, rows) ==
    IF noUser(user) THEN Refuse(401)
    ELSE Plan(200, "none", {v \in Range(rows) : listWhere(user, v)}, <<>>)

listHandler(user) == Answer(listPlan(user, vehicles))

ListVehicles(user) ==
    LET answer == listHandler(user)
    IN  /\ InTime(answer)
        /\ vehicles' = answer.vehicles
        /\ transfers' = answer.transfers
        /\ clock' = answer.clock
        /\ UNCHANGED inflight

\* ------------------------------------------------------------ POST /
\* zVehicleInsertSchema: the payload create accepts; owner, uuid and the
\* timestamps are not the caller's to set.
zVehicleInsertSchema == [vin : VINs]

\* The VIN query without its where().
existingWithoutWhere(rows, vin) == rows

\* select().from(vehiclesTable).where(eq(vin, vehicle.vin))
existingByVin(rows, vin) ==
    LET sameVin(v) == v.vin = vin IN SelectSeq(rows, sameVin)

\* existing.find(v => v.deletedAt !== null): the matches, first one first;
\* find answers the head, or undefined when there is none.
deletedVehicle(existing) ==
    LET isDeleted(v) == v.deletedAt # NULL IN SelectSeq(existing, isDeleted)

\* No transfer logged on any reactivation.
transferOnReuseNever(dv, user) == FALSE

\* A transfer logged on every reactivation.
transferOnReuseAlways(dv, user) == TRUE

\* if (deletedVehicle.ownerId !== user.id)
transferOnReuse(dv, user) == dv.ownerId # user

\* The transfer create logs: it names the vehicle by id.
reuseTransfer(dv, user, t) ==
    [vehicleId |-> Some(dv.id), vin |-> NULL, fromUserId |-> dv.ownerId,
     toUserId |-> user, transferredAt |-> t]

\* The reactivation without ownerId: user.id.
reactivatedKeepsOwner(dv, user, t) ==
    [ownerId |-> Some(dv.ownerId), vin |-> Some(dv.vin), deletedAt |-> Some(NULL),
     updatedAt |-> Some(t)]

\* { ...deletedVehicle, ownerId: user.id, deletedAt: null, updatedAt: new Date() }:
\* every column of the row that was read is written back.
reactivated(dv, user, t) ==
    [ownerId |-> Some(user), vin |-> Some(dv.vin), deletedAt |-> Some(NULL),
     updatedAt |-> Some(t)]

\* { ...vehicle, ownerId: user.id }
validatedVehicle(vehicle, user, t) ==
    [vin |-> vehicle.vin, ownerId |-> user, createdAt |-> t]

createPlan(user, vehicle, rows, t) ==
    IF noUser(user) THEN Refuse(401)
    ELSE LET existing == existingByVin(rows, vehicle.vin)
             deleted == deletedVehicle(existing)
         IN  IF Len(deleted) > 0
             THEN LET dv == Head(deleted)
                      reassign == UpdateVehicles(Where("id", dv.id),
                                                 reactivated(dv, user, t))
                  IN  Plan(200, "restored", {},
                           IF transferOnReuse(dv, user)
                           THEN <<InsertTransfer(reuseTransfer(dv, user, t)), reassign>>
                           ELSE <<reassign>>)
             ELSE Plan(201, "created", {},
                       <<InsertVehicle(validatedVehicle(vehicle, user, t))>>)

createHandler(user, vehicle) == Answer(createPlan(user, vehicle, vehicles, clock + 1))

CreateVehicle(user, vehicle) ==
    LET answer == createHandler(user, vehicle)
    IN  /\ InTime(answer)
        /\ vehicles' = answer.vehicles
        /\ transfers' = answer.transfers
        /\ clock' = answer.clock
        /\ UNCHANGED inflight

\* ------------------------------------------------------------ by UUID
\* select().from(vehiclesTable).where(eq(uuid, vehicleUUID)): res[0] is the
\* head, undefined when the sequence is empty. Update, delete and restore
\* start with this query.
selectByUuid(rows, uuid) ==
    LET sameUuid(v) == v.uuid = uuid IN SelectSeq(rows, sameUuid)

\* ------------------------------------------------------------ GET /:uuid
\* The query of get with the list's isNull(deletedAt) added.
getQueryActiveOnly(rows, uuid) ==
    LET wanted(v) == v.uuid = uuid /\ v.deletedAt = NULL IN SelectSeq(rows, wanted)

\* The query of get: it asks for the uuid and nothing else.
getQuery(rows, uuid) ==
    LET sameUuid(v) == v.uuid = uuid IN SelectSeq(rows, sameUuid)

\* The access rule without the admin exception.
ownerOnly(user, vehicle) == vehicle.ownerId = user

\* if (user.role !== "admin" && vehicle.ownerId !== user.id): 401
ownerOrAdmin(user, vehicle) ==
    ~(Role(user) # "admin" /\ vehicle.ownerId # user)

getPlan(user, uuid, rows) ==
    IF noUser(user) THEN Refuse(401)
    ELSE LET found == getQuery(rows, uuid)
         IN  IF Len(found) = 0 THEN Refuse(404)
             ELSE IF ~ownerOrAdmin(user, Head(found)) THEN Refuse(401)
             ELSE Plan(200, "none", {Head(found)}, <<>>)

getHandler(user, uuid) == Answer(getPlan(user, uuid, vehicles))

GetVehicle(user, uuid) ==
    LET answer == getHandler(user, uuid)
    IN  /\ InTime(answer)
        /\ vehicles' = answer.vehicles
        /\ transfers' = answer.transfers
        /\ clock' = answer.clock
        /\ UNCHANGED inflight

\* ---------------------------------------------------------- PATCH /:uuid
\* updateVehicleSchema.omit({uuid, createdAt, updatedAt}).partial(): every
\* remaining column may be present or missing. deletedAt stays in the shape;
\* a JSON body can carry null for it (a date column takes no JSON string).
\* The body with no key at all is left out.
updateBody ==
    {b \in [ownerId   : {NULL} \cup {Some(u) : u \in Users},
            vin       : {NULL} \cup {Some(n) : n \in VINs},
            deletedAt : {NULL, Some(NULL)},
            updatedAt : {NULL}] : b # NoSet}

\* The bodies that carry one key: the bodies of the updates that race in
\* SpecRacing, where each column is written by the body that names it.
updateBodyOneKey ==
    {b \in updateBody :
        Cardinality({k \in {"ownerId", "vin", "deletedAt"} : b[k] # NULL}) = 1}

\* The update that takes no ownerId for a change of owner.
ownerNeverChanges(vehicleBody, vehicle) == FALSE

\* The update that takes every ownerId in the body for a change of owner.
ownerNamed(vehicleBody, vehicle) == vehicleBody.ownerId # NULL

\* if (vehicleBody.ownerId && vehicleBody.ownerId !== vehicle.ownerId)
ownerChanges(vehicleBody, vehicle) ==
    /\ vehicleBody.ownerId # NULL
    /\ vehicleBody.ownerId[1] # vehicle.ownerId

\* The transfer of update with the two users swapped.
patchTransferReversed(vehicle, vehicleBody, t) ==
    [vehicleId |-> NULL, vin |-> Some(vehicle.vin), fromUserId |-> vehicleBody.ownerId[1],
     toUserId |-> vehicle.ownerId, transferredAt |-> t]

\* The transfer update logs: it names the vehicle by VIN.
patchTransfer(vehicle, vehicleBody, t) ==
    [vehicleId |-> NULL, vin |-> Some(vehicle.vin), fromUserId |-> vehicle.ownerId,
     toUserId |-> vehicleBody.ownerId[1], transferredAt |-> t]

updatePlan(user, uuid, vehicleBody, rows, t) ==
    LET found == selectByUuid(rows, uuid)
    IN  IF noUser(user) THEN Refuse(401)
        ELSE IF Len(found) = 0 THEN Refuse(404)
        ELSE IF ~ownerOrAdmin(user, Head(found)) THEN Refuse(401)
        ELSE LET vehicle == Head(found)
                 apply == UpdateVehicles(Where("uuid", uuid), vehicleBody)
             IN  IF ~ownerChanges(vehicleBody, vehicle)
                 THEN Plan(200, "none", {}, <<apply>>)
                 ELSE IF Role(user) # "admin" THEN Refuse(403)
                 ELSE Plan(200, "none", {},
                           <<InsertTransfer(patchTransfer(vehicle, vehicleBody, t)),
                             apply>>)

updateHandler(user, uuid, vehicleBody) ==
    Answer(updatePlan(user, uuid, vehicleBody, vehicles, clock + 1))

UpdateVehicle(user, uuid, vehicleBody) ==
    LET answer == updateHandler(user, uuid, vehicleBody)
    IN  /\ InTime(answer)
        /\ vehicles' = answer.vehicles
        /\ transfers' = answer.transfers
        /\ clock' = answer.clock
        /\ UNCHANGED inflight

\* --------------------------------------------------------- DELETE /:uuid
\* The owner check with the admin exception get and update make.
isOwnerOrAdmin(user, vehicle) == vehicle.ownerId = user \/ Role(user) = "admin"

\* if (vehicle.ownerId !== user.id): 401. The role is not looked at.
isOwner(user, vehicle) == vehicle.ownerId = user

\* db.update(vehiclesTable).set(softDeleteVehicle): the statement carries
\* no where(), so it is applied to every row of the table.
softDeleteWhere(uuid) == NoWhere

\* { deletedAt: new Date() }
softDeleteVehicle(t) == [NoSet EXCEPT !.deletedAt = Some(Some(t))]

deletePlan(user, uuid, rows, t) ==
    LET found == selectByUuid(rows, uuid)
    IN  IF noUser(user) THEN Refuse(401)
        ELSE IF Len(found) = 0 THEN Refuse(404)
        ELSE IF ~isOwner(user, Head(found)) THEN Refuse(401)
        ELSE Plan(200, "deleted", {},
                  <<UpdateVehicles(softDeleteWhere(uuid), softDeleteVehicle(t))>>)

deleteHandler(user, uuid) == Answer(deletePlan(user, uuid, vehicles, clock + 1))

DeleteVehicle(user, uuid) ==
    LET answer == deleteHandler(user, uuid)
    IN  /\ InTime(answer)
        /\ vehicles' = answer.vehicles
        /\ transfers' = answer.transfers
        /\ clock' = answer.clock
        /\ UNCHANGED inflight

\* --------------------------------------------------- POST /:uuid/restore
\* if (vehicle.ownerId !== user.id): 401, as in delete.
mayRestore(user, vehicle) == vehicle.ownerId = user

\* The restore that leaves updatedAt alone.
restoredKeepsUpdatedAt(t) == [NoSet EXCEPT !.deletedAt = Some(NULL)]

\* { deletedAt: null, updatedAt: new Date() }
restoredVehicleUpdate(t) ==
    [NoSet EXCEPT !.deletedAt = Some(NULL), !.updatedAt = Some(t)]

restorePlan(user, uuid, rows, t) ==
    LET found == selectByUuid(rows, uuid)
    IN  IF noUser(user) THEN Refuse(401)
        ELSE IF Len(found) = 0 THEN Refuse(404)
        ELSE IF ~mayRestore(user, Head(found)) THEN Refuse(401)
        ELSE Plan(200, "restored", {},
                  <<UpdateVehicles(Where("uuid", uuid), restoredVehicleUpdate(t))>>)

restoreHandler(user, uuid) == Answer(restorePlan(user, uuid, vehicles, clock + 1))

RestoreVehicle(user, uuid) ==
    LET answer == restoreHandler(user, uuid)
    IN  /\ InTime(answer)
        /\ vehicles' = answer.vehicles
        /\ transfers' = answer.transfers
        /\ clock' = answer.clock
        /\ UNCHANGED inflight

\* ------------------------------------------------------------------ Spec
Next ==
    \/ \E user \in Callers : ListVehicles(user)
    \/ \E user \in Callers, vehicle \in zVehicleInsertSchema : CreateVehicle(user, vehicle)
    \/ \E user \in Callers, uuid \in UUIDs : GetVehicle(user, uuid)
    \/ \E user \in Callers, uuid \in UUIDs, vehicleBody \in updateBody :
            UpdateVehicle(user, uuid, vehicleBody)
    \/ \E user \in Callers, uuid \in UUIDs : DeleteVehicle(user, uuid)
    \/ \E user \in Callers, uuid \in UUIDs : RestoreVehicle(user, uuid)

Spec == Init /\ [][Next]_vars

\* ------------------------------------------------------------ SpecRacing
\* A request begins: the handler has read the store and holds its plan.
\* Between this and each of its statements the other requests can run.
\* A request that writes nothing changes nothing and is left to Spec. The
\* slots are alike, so a request takes the second only while the first is
\* taken.
Begin(p, plan) ==
    /\ inflight[p] = <<>>
    /\ p = "p1" \/ inflight["p1"] # <<>>
    /\ plan.writes # <<>>
    /\ clock < MaxRacingTime
    /\ inflight' = [inflight EXCEPT ![p] = plan.writes]
    /\ clock' = clock + 1
    /\ UNCHANGED <<vehicles, transfers>>

BeginCreate(p, user, vehicle) ==
    Begin(p, createPlan(user, vehicle, vehicles, clock + 1))

BeginUpdate(p, user, uuid, vehicleBody) ==
    Begin(p, updatePlan(user, uuid, vehicleBody, vehicles, clock + 1))

BeginDelete(p, user, uuid) ==
    Begin(p, deletePlan(user, uuid, vehicles, clock + 1))

BeginRestore(p, user, uuid) ==
    Begin(p, restorePlan(user, uuid, vehicles, clock + 1))

\* The request issues its next statement; a statement that throws ends the
\* request with what it has written so far.
Execute(p) ==
    /\ inflight[p] # <<>>
    /\ LET done == exec(Head(inflight[p]), vehicles, transfers)
       IN  /\ vehicles' = done.vehicles
           /\ transfers' = done.transfers
           /\ inflight' = [inflight EXCEPT ![p] = IF done.ok THEN Tail(@) ELSE <<>>]
    /\ UNCHANGED clock

NextRacing ==
    \/ \E p \in Procs, user \in Callers, vehicle \in zVehicleInsertSchema :
            BeginCreate(p, user, vehicle)
    \/ \E p \in Procs, user \in Callers, uuid \in UUIDs, vehicleBody \in updateBodyOneKey :
            BeginUpdate(p, user, uuid, vehicleBody)
    \/ \E p \in Procs, user \in Callers, uuid \in UUIDs : BeginDelete(p, user, uuid)
    \/ \E p \in Procs, user \in Callers, uuid \in UUIDs : BeginRestore(p, user, uuid)
    \/ \E p \in Procs : Execute(p)

SpecRacing == Init /\ [][NextRacing]_vars

\* -------------------------------------------------------- SpecPlainUsers
\* The callers with role user.
PlainUsers == {user \in Users : Role(user) = "user"}

\* The owner of the first vehicle asks for its soft-delete.
ownerDeletesFirst(user, uuid) ==
    /\ Len(vehicles) > 0
    /\ user = vehicles[1].ownerId
    /\ uuid = vehicles[1].uuid

\* The requests of Spec in which no admin acts and the owner of the first
\* vehicle never asks for its soft-delete.
NextPlainUsers ==
    \/ \E user \in PlainUsers : ListVehicles(user)
    \/ \E user \in PlainUsers, vehicle \in zVehicleInsertSchema : CreateVehicle(user, vehicle)
    \/ \E user \in PlainUsers, uuid \in UUIDs : GetVehicle(user, uuid)
    \/ \E user \in PlainUsers, uuid \in UUIDs, vehicleBody \in updateBody :
            UpdateVehicle(user, uuid, vehicleBody)
    \/ \E user \in PlainUsers, uuid \in UUIDs :
            ~ownerDeletesFirst(user, uuid) /\ DeleteVehicle(user, uuid)
    \/ \E user \in PlainUsers, uuid \in UUIDs : RestoreVehicle(user, uuid)

SpecPlainUsers == Init /\ [][NextPlainUsers]_vars

\* ================================================================ claims
\* The rows that carry uuid, and the numbers of the rows.
Rows == 1..Len(vehicles)
Active(v) == v.deletedAt = NULL
Deleted(v) == v.deletedAt # NULL

\* C1: a soft-delete of vehicle V by its owner sets deletedAt on V and leaves
\* every other vehicle W as it was, deletedAt and all other fields.
C1_SoftDeleteTouchesOnlyTarget ==
    \A user \in Users, uuid \in UUIDs :
        LET answer == deleteHandler(user, uuid) IN
        \A i \in Rows :
            (vehicles[i].uuid = uuid /\ vehicles[i].ownerId = user) =>
                /\ answer.status = 200
                /\ Deleted(answer.vehicles[i])
                /\ \A j \in Rows : j # i => answer.vehicles[j] = vehicles[j]

\* C2: GET /vehicles answers exactly the visible rows that are not deleted:
\* the caller's own for role user, everybody's for role admin; no deleted
\* row is ever in the answer.
C2_ListExactlyVisible ==
    \A user \in Users :
        LET answer == listHandler(user) IN
        /\ answer.status = 200
        /\ Role(user) = "user" =>
              answer.body = {v \in Range(vehicles) : v.ownerId = user /\ Active(v)}
        /\ Role(user) = "admin" =>
              answer.body = {v \in Range(vehicles) : Active(v)}
        /\ \A v \in answer.body : Active(v)

\* A deleted row and an active row of a plain user: the admin's list holds
\* the second, and the first is in nobody's list.
C2_Witness ==
    \E i, j \in Rows :
        /\ Deleted(vehicles[i]) /\ Active(vehicles[j])
        /\ Role(vehicles[j].ownerId) = "user"
        /\ vehicles[j] \in listHandler("adm").body
        /\ vehicles[j] \in listHandler(vehicles[j].ownerId).body
        /\ vehicles[i] \notin listHandler(vehicles[i].ownerId).body

\* C3: create with a VIN no row carries adds one row with an unused UUID,
\* the caller as owner and deletedAt null, answers 201 created, leaves the
\* existing rows alone and logs no transfer.
C3_CreateFreshVin ==
    \A user \in Users, vehicle \in zVehicleInsertSchema :
        (\A v \in Range(vehicles) : v.vin # vehicle.vin) =>
            LET answer == createHandler(user, vehicle)
                n == Len(vehicles)
            IN  /\ answer.status = 201 /\ answer.tag = "created"
                /\ Len(answer.vehicles) = n + 1
                /\ SubSeq(answer.vehicles, 1, n) = vehicles
                /\ answer.vehicles[n + 1].uuid \notin {v.uuid : v \in Range(vehicles)}
                /\ answer.vehicles[n + 1].vin = vehicle.vin
                /\ answer.vehicles[n + 1].ownerId = user
                /\ answer.vehicles[n + 1].deletedAt = NULL
                /\ answer.body = {answer.vehicles[n + 1]}
                /\ answer.transfers = transfers

\* The store after such a create: the first row is deleted, and the last
\* write inserted a second row, of another VIN and owner, beside it.
C3_Witness ==
    /\ Len(vehicles) = 2 /\ transfers = <<>>
    /\ Deleted(vehicles[1]) /\ Active(vehicles[2])
    /\ vehicles[2].ownerId # vehicles[1].ownerId
    /\ vehicles[2].updatedAt = clock
    /\ vehicles[1].deletedAt = Some(clock - 1)

\* C4: create with the VIN of a soft-deleted row, by any authenticated
\* caller, answers restored, leaves that row with deletedAt null and the
\* caller as owner, and inserts no row.
C4_CreateReactivates ==
    \A user \in Users, vehicle \in zVehicleInsertSchema, i \in Rows :
        (vehicles[i].vin = vehicle.vin /\ Deleted(vehicles[i])) =>
            LET answer == createHandler(user, vehicle)
            IN  /\ answer.tag = "restored"
                /\ Len(answer.vehicles) = Len(vehicles)
                /\ answer.vehicles[i].uuid = vehicles[i].uuid
                /\ answer.vehicles[i].deletedAt = NULL
                /\ answer.vehicles[i].ownerId = user

\* The store after a reactivation by another user: the row is theirs and
\* active, and the last write logged the one transfer, from the prior owner.
C4_Witness ==
    \E i \in Rows :
        /\ Len(transfers) = 1
        /\ transfers[1].vehicleId = Some(vehicles[i].id)
        /\ transfers[1].toUserId = vehicles[i].ownerId
        /\ transfers[1].fromUserId # vehicles[i].ownerId
        /\ transfers[1].transferredAt = clock
        /\ Active(vehicles[i]) /\ vehicles[i].updatedAt = clock

\* C5: when create reactivates a soft-deleted row, one transfer is added,
\* from the prior owner to the caller, if the two differ, and none if the
\* prior owner is the caller.
C5_TransferOnReactivation ==
    \A user \in Users, vehicle \in zVehicleInsertSchema, i \in Rows :
        (vehicles[i].vin = vehicle.vin /\ Deleted(vehicles[i])) =>
            LET answer == createHandler(user, vehicle)
                n == Len(transfers)
            IN  IF vehicles[i].ownerId # user
                THEN /\ Len(answer.transfers) = n + 1
                     /\ SubSeq(answer.transfers, 1, n) = transfers
                     /\ answer.transfers[n + 1].fromUserId = vehicles[i].ownerId
                     /\ answer.transfers[n + 1].toUserId = user
                ELSE answer.transfers = transfers

\* A soft-deleted row that its owner reactivates without a transfer and
\* that another user reactivates with one.
C5_Witness ==
    \E i \in Rows, user \in Users :
        /\ Deleted(vehicles[i]) /\ vehicles[i].ownerId # user
        /\ Len(createHandler(user, [vin |-> vehicles[i].vin]).transfers)
              = Len(transfers) + 1
        /\ createHandler(vehicles[i].ownerId, [vin |-> vehicles[i].vin]).transfers
              = transfers
        /\ createHandler(vehicles[i].ownerId, [vin |-> vehicles[i].vin]).tag = "restored"

\* C6: in every reachable state a VIN is carried by at most one active row,
\* whatever creates, updates, soft-deletes and restores came before and
\* however their statements interleaved.
C6_OneActiveRowPerVin ==
    \A i, j \in Rows :
        (vehicles[i].vin = vehicles[j].vin /\ Active(vehicles[i]) /\ Active(vehicles[j]))
            => i = j

\* A request read the store when no row carried its VIN and is about to
\* insert; meanwhile another request has put an active row with that VIN
\* there, and the store refuses the insert.
C6_Witness ==
    \E p \in Procs, i \in Rows :
        /\ inflight[p] # <<>>
        /\ Head(inflight[p]).op = "insertVehicle"
        /\ Head(inflight[p]).row.vin = vehicles[i].vin
        /\ Active(vehicles[i])
        /\ ~exec(Head(inflight[p]), vehicles, transfers).ok

\* The requests of the state machine, as steps on row i.
SoftDeleteByOwner(i) == DeleteVehicle(vehicles[i].ownerId, vehicles[i].uuid)
RestoreByOwner(i) == RestoreVehicle(vehicles[i].ownerId, vehicles[i].uuid)
CreateWithVinOf(i) == \E user \in Users : CreateVehicle(user, [vin |-> vehicles[i].vin])

\* C7: a row goes from active to deleted only by its owner's soft-delete of
\* that row, from deleted to active only by its owner's restore or by a
\* create with its VIN, and an update never changes whether deletedAt is null.
C7_OnlyStateMachineTransitions ==
    [][\A i \in Rows :
          /\ (Active(vehicles[i]) /\ Deleted(vehicles'[i])) => SoftDeleteByOwner(i)
          /\ (Deleted(vehicles[i]) /\ Active(vehicles'[i])) =>
                (RestoreByOwner(i) \/ CreateWithVinOf(i))
          /\ \A user \in Callers, uuid \in UUIDs, vehicleBody \in updateBody :
                UpdateVehicle(user, uuid, vehicleBody) =>
                    (Active(vehicles[i]) <=> Active(vehicles'[i]))]_vars

\* C8: a soft-delete or a restore of an existing vehicle by a caller who is
\* not its owner, an admin included, answers 401 and changes no vehicle row
\* and no transfer.
C8_NonOwnerDeleteRestoreRefused ==
    \A user \in Users, i \in Rows :
        vehicles[i].ownerId # user =>
            LET del == deleteHandler(user, vehicles[i].uuid)
                res == restoreHandler(user, vehicles[i].uuid)
            IN  /\ del.status = 401 /\ res.status = 401
                /\ del.vehicles = vehicles /\ del.transfers = transfers
                /\ res.vehicles = vehicles /\ res.transfers = transfers

\* A deleted row of a plain user: the admin's restore and the admin's
\* soft-delete of it are refused, and so are another plain user's.
C8_Witness ==
    \E i \in Rows, user \in Users :
        /\ Deleted(vehicles[i])
        /\ Role(vehicles[i].ownerId) = "user"
        /\ Role(user) = "user" /\ user # vehicles[i].ownerId
        /\ restoreHandler("adm", vehicles[i].uuid).status = 401
        /\ deleteHandler("adm", vehicles[i].uuid).status = 401
        /\ restoreHandler(user, vehicles[i].uuid).status = 401
        /\ deleteHandler(user, vehicles[i].uuid).status = 401

\* C9: a soft-deleted vehicle is in no caller's GET /vehicles, and stays out
\* of it at every step that is not a restore of it or a create with its VIN.
C9_DeletedOffListUntilRestored ==
    [][\A i \in Rows :
          Deleted(vehicles[i]) =>
              /\ \A user \in Users : vehicles[i] \notin listHandler(user).body
              /\ (\E user \in Users : RestoreVehicle(user, vehicles[i].uuid))
                 \/ CreateWithVinOf(i)
                 \/ \A user \in Users : vehicles'[i] \notin listHandler(user)'.body]_vars

restoreAfter(del, i) ==
    restorePlan(vehicles[i].ownerId, vehicles[i].uuid, del.vehicles, del.clock + 1)

\* C12: the owner's soft-delete of a vehicle followed by the owner's restore
\* of it both succeed and leave the vehicle with every field as before the
\* soft-delete, except deletedAt, which is null, and updatedAt, which is
\* the time of the restore.
C12_DeleteRestoreRoundTrip ==
    \A i \in Rows :
        LET v == vehicles[i]
            del == deleteHandler(v.ownerId, v.uuid)
            plan == restoreAfter(del, i)
        IN  /\ del.status = 200 /\ Deleted(del.vehicles[i])
            /\ plan.status = 200 /\ plan.tag = "restored" /\ Len(plan.writes) = 1
            /\ LET done == execAll(plan.writes, del.vehicles, del.transfers)
               IN  /\ done.ok
                   /\ done.vehicles[i] =
                         [v EXCEPT !.deletedAt = NULL, !.updatedAt = del.clock + 1]
                   /\ done.returning = <<done.vehicles[i]>>

\* An active vehicle that was last written before now, beside a second
\* vehicle: the round trip refreshes its updatedAt and leaves it active.
C12_Witness ==
    \E i, j \in Rows :
        LET v == vehicles[i]
            del == deleteHandler(v.ownerId, v.uuid)
            done == execAll(restoreAfter(del, i).writes, del.vehicles, del.transfers)
        IN  /\ i # j /\ Active(v) /\ v.updatedAt < clock
            /\ del.status = 200 /\ Deleted(del.vehicles[i])
            /\ Active(done.vehicles[i]) /\ done.vehicles[i].updatedAt > clock
            /\ done.vehicles[i].vin = v.vin /\ done.vehicles[i].ownerId = v.ownerId

\* C13: a request that changes the owner of an existing vehicle from a to b
\* adds, in the same request, one transfer from a to b that names the
\* vehicle; no step changes an owner without it.
C13_OwnerChangeIsLogged ==
    [][\A i \in Rows :
          vehicles'[i].ownerId # vehicles[i].ownerId =>
              LET n == Len(transfers) IN
              /\ Len(transfers') = n + 1
              /\ SubSeq(transfers', 1, n) = transfers
              /\ transfers'[n + 1].fromUserId = vehicles[i].ownerId
              /\ transfers'[n + 1].toUserId = vehicles'[i].ownerId
              /\ \/ transfers'[n + 1].vehicleId = Some(vehicles[i].id)
                 \/ transfers'[n + 1].vin = Some(vehicles[i].vin)]_vars

\* The store after an admin's update gave a vehicle a new owner: the last
\* transfer was written now, names the vehicle by VIN and ends at the owner.
C13_Witness ==
    \E i \in Rows :
        LET last == transfers[Len(transfers)] IN
        /\ Len(transfers) > 0
        /\ last.vehicleId = NULL /\ last.vin = Some(vehicles[i].vin)
        /\ last.transferredAt = clock
        /\ last.toUserId = vehicles[i].ownerId
        /\ last.fromUserId # last.toUserId

\* C14: transfers are append-only: every record present before a step is
\* present after it, at its place and with the same fields.
C14_TransfersAppendOnly ==
    [][/\ Len(transfers') >= Len(transfers)
       /\ SubSeq(transfers', 1, Len(transfers)) = transfers]_vars

\* Two transfers written by two requests: the earlier one is still there
\* after the later one was added.
C14_Witness ==
    /\ Len(transfers) = 2
    /\ transfers[1].transferredAt < transfers[2].transferredAt
    /\ transfers[2].transferredAt = clock

\* C15: no step removes a vehicle row: every row keeps its place, id and
\* uuid, so the UUIDs in the store only grow, and a soft-deleted vehicle
\* is still the row its owner's get by UUID answers.
C15_NoHardDelete ==
    [][/\ {v.uuid : v \in Range(vehicles)} \subseteq {v.uuid : v \in Range(vehicles')}
       /\ \A i \in Rows :
            /\ i <= Len(vehicles')
            /\ vehicles'[i].id = vehicles[i].id
            /\ vehicles'[i].uuid = vehicles[i].uuid
            /\ Deleted(vehicles'[i]) =>
                  getHandler(vehicles[i].ownerId, vehicles[i].uuid)'.body = {vehicles'[i]}]_vars

\* Two vehicles, both soft-deleted by one request, each still answered by
\* its owner's get.
C15_Witness ==
    /\ Len(vehicles) = 2
    /\ \A i \in Rows :
          /\ vehicles[i].deletedAt = Some(clock)
          /\ getHandler(vehicles[i].ownerId, vehicles[i].uuid).body = {vehicles[i]}

\* C16: get and update by UUID share one access rule. For a caller with a
\* session both answer 404 when no vehicle has the UUID and 401 when the
\* caller is neither the vehicle's owner nor an admin, and in both cases
\* leave vehicles and transfers as they were; otherwise neither answers
\* 404 or 401, and get answers the vehicle with that UUID.
C16_GetUpdateAccessRule ==
    \A user \in Users, uuid \in UUIDs, vehicleBody \in updateBody :
        LET get == getHandler(user, uuid)
            upd == updateHandler(user, uuid, vehicleBody)
            found == {v \in Range(vehicles) : v.uuid = uuid}
        IN  IF found = {}
            THEN /\ get.status = 404 /\ upd.status = 404
                 /\ get.vehicles = vehicles /\ get.transfers = transfers
                 /\ upd.vehicles = vehicles /\ upd.transfers = transfers
            ELSE \A v \in found :
                    IF v.ownerId # user /\ Role(user) # "admin"
                    THEN /\ get.status = 401 /\ upd.status = 401
                         /\ get.vehicles = vehicles /\ get.transfers = transfers
                         /\ upd.vehicles = vehicles /\ upd.transfers = transfers
                    ELSE /\ get.status = 200 /\ get.body = {v}
                         /\ upd.status \notin {401, 404}

\* One vehicle of a plain user: another plain user is refused by get and by
\* update, the admin is answered, and the UUID no vehicle has is not found.
C16_Witness ==
    \E v \in Range(vehicles), user \in Users, uuid \in UUIDs :
        LET renamed == [NoSet EXCEPT !.vin = Some(v.vin)] IN
        /\ Role(v.ownerId) = "user" /\ Role(user) = "user" /\ user # v.ownerId
        /\ getHandler(user, v.uuid).status = 401
        /\ updateHandler(user, v.uuid, renamed).status = 401
        /\ getHandler("adm", v.uuid).body = {v}
        /\ updateHandler("adm", v.uuid, renamed).status = 200
        /\ getHandler(v.ownerId, uuid).status = 404
        /\ updateHandler(v.ownerId, uuid, renamed).status = 404

\* C17: list, create, get, update, soft-delete and restore issued without a
\* resolved user answer 401 and leave vehicles and transfers as they were.
C17_NoUserIsRefused ==
    \A vehicle \in zVehicleInsertSchema, uuid \in UUIDs, vehicleBody \in updateBody :
        \A answer \in {listHandler(NoUser), createHandler(NoUser, vehicle),
                       getHandler(NoUser, uuid),
                       updateHandler(NoUser, uuid, vehicleBody),
                       deleteHandler(NoUser, uuid), restoreHandler(NoUser, uuid)} :
            /\ answer.status = 401 /\ answer.body = {}
            /\ answer.vehicles = vehicles /\ answer.transfers = transfers

\* A soft-deleted vehicle whose owner could restore it, take it again by
\* create or read it: without a user each of these is refused.
C17_Witness ==
    \E v \in Range(vehicles) :
        /\ Deleted(v)
        /\ restoreHandler(v.ownerId, v.uuid).status = 200
        /\ restoreHandler(NoUser, v.uuid).status = 401
        /\ createHandler(v.ownerId, [vin |-> v.vin]).status = 200
        /\ createHandler(NoUser, [vin |-> v.vin]).status = 401
        /\ getHandler(v.ownerId, v.uuid).status = 200
        /\ getHandler(NoUser, v.uuid).status = 401

\* C18: an admin's update whose ownerId is not the vehicle's owner issues
\* the insert of the transfer, from the current owner to the new one, and
\* after it the update of the row; when the request runs to completion the
\* vehicle has the new owner and one transfer, that one, was added.
C18_AdminTransferThenUpdate ==
    \A i \in Rows, admin \in Users, vehicleBody \in updateBody :
        LET vehicle == vehicles[i]
            plan == updatePlan(admin, vehicle.uuid, vehicleBody, vehicles, clock + 1)
            answer == updateHandler(admin, vehicle.uuid, vehicleBody)
            n == Len(transfers)
        IN  (/\ Role(admin) = "admin"
             /\ vehicleBody.ownerId # NULL
             /\ vehicleBody.ownerId # Some(vehicle.ownerId)) =>
                /\ Len(plan.writes) = 2
                /\ plan.writes[1].op = "insertTransfer"
                /\ plan.writes[1].row.fromUserId = vehicle.ownerId
                /\ Some(plan.writes[1].row.toUserId) = vehicleBody.ownerId
                /\ plan.writes[2].op = "update"
                /\ answer.status = 200 =>
                      /\ Some(answer.vehicles[i].ownerId) = vehicleBody.ownerId
                      /\ answer.body = {answer.vehicles[i]}
                      /\ Len(answer.transfers) = n + 1
                      /\ SubSeq(answer.transfers, 1, n) = transfers
                      /\ answer.transfers[n + 1] = plan.writes[1].row

\* A plain user's vehicle that the admin hands to another plain user: the
\* request completes with the transfer as its first statement.
C18_Witness ==
    \E i \in Rows, other \in Users :
        LET vehicle == vehicles[i]
            vehicleBody == [NoSet EXCEPT !.ownerId = Some(other)]
            plan == updatePlan("adm", vehicle.uuid, vehicleBody, vehicles, clock + 1)
            answer == updateHandler("adm", vehicle.uuid, vehicleBody)
        IN  /\ Role(vehicle.ownerId) = "user" /\ Role(other) = "user"
            /\ other # vehicle.ownerId
            /\ Len(plan.writes) = 2 /\ plan.writes[1].op = "insertTransfer"
            /\ answer.status = 200
            /\ answer.vehicles[i].ownerId = other
            /\ Len(answer.transfers) = Len(transfers) + 1

\* Request p has read vehicle i, soft-deleted and another user's, and is
\* about to log its transfer and take the vehicle; the vehicle is still as
\* the request read it.
Reactivating(p, i) ==
    /\ Len(inflight[p]) = 2
    /\ inflight[p][1].op = "insertTransfer"
    /\ inflight[p][1].row.vehicleId = Some(vehicles[i].id)
    /\ inflight[p][1].row.fromUserId = vehicles[i].ownerId
    /\ inflight[p][2].op = "update"
    /\ inflight[p][2].set.vin = Some(vehicles[i].vin)
    /\ Deleted(vehicles[i])

\* C19: no transaction holds a handler's read and its writes together. When
\* two creates have both read the same soft-deleted vehicle, both go
\* through: the log gets two transfers from the same prior owner, the
\* second written when that user no longer owns the vehicle, and the
\* vehicle ends with the owner the later update wrote, so the take-over of
\* the earlier request is lost.
C19_RacingCreatesDuplicateTransfers ==
    \A p, q \in Procs, i \in Rows :
        (p # q /\ Reactivating(p, i) /\ Reactivating(q, i)) =>
            LET first == execAll(inflight[p], vehicles, transfers)
                second == execAll(inflight[q], first.vehicles, first.transfers)
                n == Len(transfers)
            IN  /\ first.ok /\ second.ok
                /\ first.vehicles[i].ownerId = inflight[p][1].row.toUserId
                /\ second.vehicles[i].ownerId = inflight[q][1].row.toUserId
                /\ Len(second.transfers) = n + 2
                /\ second.transfers[n + 1] = inflight[p][1].row
                /\ second.transfers[n + 2] = inflight[q][1].row
                /\ second.transfers[n + 1].fromUserId = vehicles[i].ownerId
                /\ second.transfers[n + 2].fromUserId = vehicles[i].ownerId
                /\ second.transfers[n + 2].fromUserId # first.vehicles[i].ownerId

\* All requests are done, and the log ends with two transfers of one
\* vehicle from the same prior owner to two users; the vehicle is the
\* second one's.
C19_Witness ==
    /\ inflight = Idle
    /\ \E k \in 1..(Len(transfers) - 1), i \in Rows :
          /\ transfers[k].vehicleId = Some(vehicles[i].id)
          /\ transfers[k + 1].vehicleId = Some(vehicles[i].id)
          /\ transfers[k].fromUserId = transfers[k + 1].fromUserId
          /\ transfers[k].toUserId # transfers[k + 1].toUserId
          /\ vehicles[i].ownerId = transfers[k + 1].toUserId

\* C20: while no admin acts and the owner of a vehicle never asks for its
\* soft-delete (SpecPlainUsers, for the first vehicle), no step gives the
\* vehicle another owner.
C20_OwnerKeepsUndeletedVehicle ==
    [][Len(vehicles) > 0 => vehicles'[1].ownerId = vehicles[1].ownerId]_vars

\* The transfers that name vehicle v, by id as create writes them or by VIN
\* as update writes them: their places in the log.
transfersOf(v) ==
    {k \in 1..Len(transfers) :
        transfers[k].vehicleId = Some(v.id) \/ transfers[k].vin = Some(v.vin)}

\* C21: once every request under way has completed, each vehicle with a
\* transfer in the log has the owner that its most recently added transfer
\* names as toUserId, however the requests interleaved.
C21_LastTransferNamesOwner ==
    inflight = Idle =>
        \A v \in Range(vehicles) :
            \A k \in transfersOf(v) :
                (\A later \in transfersOf(v) : later <= k) =>
                    transfers[k].toUserId = v.ownerId

\* C22: every transfer in the log, and every transfer a request under way
\* is about to insert, has a fromUserId other than its toUserId, however
\* the creates and updates interleaved.
C22_TransferBetweenTwoUsers ==
    /\ \A k \in 1..Len(transfers) : transfers[k].fromUserId # transfers[k].toUserId
    /\ \A p \in Procs : \A n \in 1..Len(inflight[p]) :
          inflight[p][n].op = "insertTransfer" =>
              inflight[p][n].row.fromUserId # inflight[p][n].row.toUserId

\* Two creates of one user raced for a soft-deleted vehicle of another: the
\* log holds the same transfer twice, the second inserted when the vehicle
\* was the caller's already.
C22_Witness ==
    /\ inflight = Idle
    /\ \E k \in 1..(Len(transfers) - 1), i \in Rows :
          /\ transfers[k].vehicleId = Some(vehicles[i].id)
          /\ transfers[k + 1].vehicleId = Some(vehicles[i].id)
          /\ transfers[k].fromUserId = transfers[k + 1].fromUserId
          /\ transfers[k].toUserId = transfers[k + 1].toUserId
          /\ transfers[k].transferredAt < transfers[k + 1].transferredAt
          /\ vehicles[i].ownerId = transfers[k].toUserId
====
